---- MODULE Spec2Model ----
(***************************************************************************)
(* Model of the wikisearch index builder (main.go).  Strings are sequences *)
(* of byte values, as Go's len() and sort.Strings see them.  The process   *)
(* is main -> buildIndex: remove and recreate the output directories, open *)
(* the dump, stream pages, then write document shards, index shards and    *)
(* meta.json.  The operator may run the program a second time on the same  *)
(* pages (possibly in another order); the files of the first run are kept  *)
(* in prevFiles for comparison.                                            *)
(***************************************************************************)
EXTENDS Integers, Sequences, FiniteSets, TLC

\* ------------------------------------------------------------------ bounds
\* Longest page stream fed to one run.
MaxPages == 2

\* --------------------------------------------------------- program constants
shardCount == 4096
docShardCount == 65536

\* ------------------------------------------------------------ byte helpers
\* A string made of n copies of byte c.
Repeat(c, n) == [i \in 1..n |-> c]

\* Bitwise exclusive or of two naturals.
RECURSIVE Xor(_, _)
Xor(a, b) ==
  IF a = 0 THEN b
  ELSE IF b = 0 THEN a
  ELSE ((a + b) % 2) + 2 * Xor(a \div 2, b \div 2)

IsUpper(c) == c >= 65 /\ c <= 90
IsLetterOrDigit(c) ==
  \/ (c >= 48 /\ c <= 57)
  \/ (c >= 65 /\ c <= 90)
  \/ (c >= 97 /\ c <= 122)
ToLower(c) == IF IsUpper(c) THEN c + 32 ELSE c

\* Lexicographic byte order of Go strings: a < b.
StrLess(a, b) ==
  LET n    == IF Len(a) < Len(b) THEN Len(a) ELSE Len(b)
      diff == {i \in 1..n : a[i] # b[i]}
      d    == CHOOSE i \in diff : \A j \in diff : i <= j
  IN  IF diff = {} THEN Len(a) < Len(b) ELSE a[d] < b[d]

\* ---------------------------------------------------------- stripWikitext
\* The inputs of the model are written with letters, digits, the space and
\* the apostrophe.  Of the rewrites of stripWikitext only styleRe
\* ('{2,} -> ""), multiSpaceRe ([ \t]{2,} -> " ") and strings.TrimSpace can
\* match such a text: every other pattern needs one of < > { } [ ] | ! = - or
\* a newline.  They are applied in the order of the source.
\*
\* ReplaceAllString for a pattern c{2,}: a left-to-right scan that holds the
\* length of the pending run of c; a run of two or more becomes repl, a run of
\* one stays.
RunFlush(st, c, repl) ==
  IF st.run >= 2 THEN st.out \o repl
  ELSE IF st.run = 1 THEN Append(st.out, c)
  ELSE st.out

RunStep(st, ch, c, repl) ==
  IF ch = c THEN [out |-> st.out, run |-> st.run + 1]
  ELSE [out |-> Append(RunFlush(st, c, repl), ch), run |-> 0]

\* The scan over s[i..j], split in halves.
RECURSIVE RunFold(_, _, _, _, _, _)
RunFold(st, s, i, j, c, repl) ==
  IF i > j THEN st
  ELSE IF i = j THEN RunStep(st, s[i], c, repl)
  ELSE LET mid  == (i + j) \div 2
           left == RunFold(st, s, i, mid, c, repl)
       IN  IF left.run >= 0 THEN RunFold(left, s, mid + 1, j, c, repl) ELSE left

ReplaceRuns(s, c, repl) ==
  RunFlush(RunFold([out |-> << >>, run |-> 0], s, 1, Len(s), c, repl), c, repl)

StyleReplace(s) == ReplaceRuns(s, 39, << >>)
MultiSpaceReplace(s) == ReplaceRuns(s, 32, <<32>>)

TrimSpace(s) ==
  LET keep == {i \in 1..Len(s) : s[i] # 32}
      lo   == CHOOSE i \in keep : \A j \in keep : i <= j
      hi   == CHOOSE i \in keep : \A j \in keep : i >= j
  IN  IF keep = {} THEN << >> ELSE SubSeq(s, lo, hi)

stripWikitext(s) == TrimSpace(MultiSpaceReplace(StyleReplace(s)))

\* --------------------------------------------------------------- tokenize
\* One iteration of the loop of tokenize on the rune r of strings.ToLower(s):
\* buf is the strings.Builder, tokens the result so far.
TokenStep(st, r) ==
  IF IsLetterOrDigit(r) THEN [buf |-> Append(st.buf, r), tokens |-> st.tokens]
  ELSE IF Len(st.buf) > 0 THEN [buf |-> << >>, tokens |-> Append(st.tokens, st.buf)]
  ELSE st

\* The loop over s[i..j], split in halves.
RECURSIVE TokenFold(_, _, _, _)
TokenFold(st, s, i, j) ==
  IF i > j THEN st
  ELSE IF i = j THEN TokenStep(st, ToLower(s[i]))
  ELSE LET mid  == (i + j) \div 2
           left == TokenFold(st, s, i, mid)
       IN  IF Len(left.buf) >= 0 THEN TokenFold(left, s, mid + 1, j) ELSE left

tokenize(s) ==
  LET st == TokenFold([buf |-> << >>, tokens |-> << >>], s, 1, Len(s))
  IN  IF Len(st.buf) > 0 THEN Append(st.tokens, st.buf) ELSE st.tokens

\* ------------------------------------------------------------------- hash
\* FNV-1a, 32 bits.  A 32-bit value is kept as two 16-bit halves so that no
\* intermediate exceeds the 32-bit integers of TLC: offset basis 2166136261 =
\* 0x811C9DC5, prime 16777619 = 2^24 + 403.
FnvOffset == [hi |-> 33052, lo |-> 40389]

FnvStep(h, b) ==
  LET x  == (h.lo \div 256) * 256 + Xor(h.lo % 256, b)
      m  == x * 403
  IN  [lo |-> m % 65536,
       hi |-> (h.hi * 403 + (m \div 65536) + (x % 256) * 256) % 65536]

\* h after the bytes s[i..j] (the loop of Write, split in halves).
RECURSIVE FnvFold(_, _, _, _)
FnvFold(h, s, i, j) ==
  IF i > j THEN h
  ELSE IF i = j THEN FnvStep(h, s[i])
  ELSE LET mid  == (i + j) \div 2
           left == FnvFold(h, s, i, mid)
       IN  IF left.lo >= 0 THEN FnvFold(left, s, mid + 1, j) ELSE left

hash(s) == FnvFold(FnvOffset, s, 1, Len(s))

\* h % m for a 32-bit h held in halves.
Mod32(h, m) == ((h.hi % m) * (65536 % m) + h.lo) % m

TermShard(t) == Mod32(hash(t), shardCount)
DocShard(id) == id % docShardCount

\* ------------------------------------------------------------ collections
\* A Go map is a function on its keys; a slice is a sequence.
EmptyMap == [k \in {} |-> << >>]

\* m[k] = append(m[k], v)
MapAppend(m, k, v) ==
  IF k \in DOMAIN m THEN [m EXCEPT ![k] = Append(@, v)] ELSE m @@ (k :> <<v>>)

Range(s) == {s[i] : i \in 1..Len(s)}

\* The orders in which a range loop may visit the keys S of a map.
IterOrders(S) ==
  {f \in [1..Cardinality(S) -> S] : \A x \in S : \E i \in 1..Cardinality(S) : f[i] = x}

\* insertionSort of the sort package, the path its sorts take for at most 12
\* elements: each element moves left while it is less than its left
\* neighbour (so equal elements keep their order).
RECURSIVE InsertString(_, _)
InsertString(s, x) ==
  IF s = << >> \/ ~StrLess(x, s[Len(s)]) THEN Append(s, x)
  ELSE Append(InsertString(SubSeq(s, 1, Len(s) - 1), x), s[Len(s)])

\* The terms left in the order the map was visited.
SortStringsNone(tokens) == tokens

RECURSIVE SortStrings(_)
SortStrings(tokens) ==
  IF tokens = << >> THEN << >>
  ELSE InsertString(SortStrings(SubSeq(tokens, 1, Len(tokens) - 1)), tokens[Len(tokens)])

\* A sort whose elements never move.
InsertPostingAppend(s, x) == Append(s, x)

RECURSIVE InsertPosting(_, _)
InsertPosting(s, x) ==
  IF s = << >> \/ ~(x.DocID < s[Len(s)].DocID) THEN Append(s, x)
  ELSE Append(InsertPosting(SubSeq(s, 1, Len(s) - 1), x), s[Len(s)])

\* The postings left in arrival order.
SortPostingsNone(postings) == postings

RECURSIVE SortPostings(_)
SortPostings(postings) ==
  IF postings = << >> THEN << >>
  ELSE InsertPosting(SortPostings(SubSeq(postings, 1, Len(postings) - 1)),
                     postings[Len(postings)])

\* ---------------------------------------------------------------- encoding
\* binary.PutUvarint: seven bits a byte, the high bit set on all but the last.
RECURSIVE Uvarint(_)
Uvarint(v) == IF v < 128 THEN <<v>> ELSE <<(v % 128) + 128>> \o Uvarint(v \div 128)

\* binary.Write, little endian, of a uint16 and of a uint32.
LE16(v) == <<v % 256, (v \div 256) % 256>>
LE32(v) == <<v % 256, (v \div 256) % 256, (v \div 65536) % 256, (v \div 16777216) % 256>>

\* The length fields as the conversions of the source compute them:
\* byte(len(t)), uint16(len(doc.Title)), uint32(len(doc.Content)).  No text
\* of the model reaches 2^32 bytes, so the last one is the length itself.
TermLenField(t) == Len(t) % 256
TitleLenField(title) == Len(title) % 65536
ContentLenField(content) == Len(content)

\* The varints of one position list, prevPos starting at 0.
RECURSIVE PositionBytes(_, _)
PositionBytes(positions, prevPos) ==
  IF positions = << >> THEN << >>
  ELSE Uvarint(Head(positions) - prevPos) \o PositionBytes(Tail(positions), Head(positions))

\* The doc-id deltas the encoder writes for a sorted posting list.  The list
\* is sorted just before, so the uint32 subtraction does not wrap.
DocDeltas(postings) ==
  [i \in 1..Len(postings) |->
     postings[i].DocID - (IF i = 1 THEN 0 ELSE postings[i - 1].DocID)]

RECURSIVE PostingBytes(_, _)
PostingBytes(postings, i) ==
  IF i > Len(postings) THEN << >>
  ELSE Uvarint(DocDeltas(postings)[i])
       \o Uvarint(Len(postings[i].Positions))
       \o PositionBytes(postings[i].Positions, 0)
       \o PostingBytes(postings, i + 1)

\* One term of an index shard file.
EncodeTerm(t, postings) ==
  <<TermLenField(t)>> \o t \o LE32(Len(postings)) \o PostingBytes(SortPostings(postings), 1)

\* An index shard file: keys is the order in which the range loop visited the
\* terms of the shard.
RECURSIVE EncodeTerms(_, _)
EncodeTerms(shard, tokens) ==
  IF tokens = << >> THEN << >>
  ELSE EncodeTerm(Head(tokens), shard[Head(tokens)]) \o EncodeTerms(shard, Tail(tokens))

EncodeIndexShard(shard, keys) == EncodeTerms(shard, SortStrings(keys))

\* A document shard file.
RECURSIVE EncodeDocRecords(_)
EncodeDocRecords(docs) ==
  IF docs = << >> THEN << >>
  ELSE LET doc == Head(docs) IN
       LE32(doc.ID) \o LE16(TitleLenField(doc.Title)) \o doc.Title
       \o LE32(ContentLenField(doc.Content)) \o doc.Content
       \o EncodeDocRecords(Tail(docs))

EncodeDocShard(docs) == LE32(Len(docs)) \o EncodeDocRecords(docs)

\* ------------------------------------------------------------------ input
\* A <page> element of the dump: its children in the order of the export
\* format (title, ns, id, revision/text).  id is the number written in <id>;
\* a negative one does not parse as a uint32.  syntaxAt = k > 0 is an XML
\* syntax error inside the k-th child; 0 is none.
MkPage(title, ns, id, text, syntaxAt) ==
  [title |-> title, ns |-> ns, id |-> id, text |-> text, syntaxAt |-> syntaxAt]

LongTerm == Repeat(97, 256)

PageA == MkPage(<<65>>, 0, 1, <<65, 32, 32, 100, 114, 55, 32, 39, 39, 97, 39, 39>>, 0)
PageB == MkPage(<<66>>, 0, 65537, <<98, 32, 97>>, 0)
PageDup == MkPage(<<68>>, 0, 1, <<97>>, 0)
PageTalk == MkPage(<<84>>, 1, 1, <<97>>, 0)
PageZero == MkPage(<<90>>, 0, 0, <<97>>, 0)
PageBadId == MkPage(<<86>>, 0, -1, <<97>>, 0)
PageCut == MkPage(<<83>>, 0, 3, <<97>>, 2)
PageLong == MkPage(<<76>>, 0, 2, LongTerm, 0)

Pages == {PageA, PageB, PageDup, PageTalk, PageZero, PageBadId, PageCut, PageLong}

PageSeqs(n) == UNION {[1..k -> Pages] : k \in 0..n}

\* What the run is given: the pages the decoder can read before the stream
\* ends, and why it ends ("none": end of file; "decompress": the bzip2 reader
\* reports corrupt data after these pages, a dump cut short; "open": os.Open
\* failed and nothing can be read).
Inputs ==
  {[pages |-> ps, fault |-> "none"] : ps \in PageSeqs(MaxPages)}
  \cup {[pages |-> ps, fault |-> "decompress"] : ps \in PageSeqs(MaxPages - 1)}
  \cup {[pages |-> << >>, fault |-> "open"]}

\* decoder.DecodeElement(&page, &se) with its error dropped: the children
\* before the first failure are stored, the rest keep their zero values.
\* sticky: the decoder has met a syntax error and returns it from every later
\* Token call.
DecodeElement(p) ==
  LET read == IF p.syntaxAt > 0 THEN p.syntaxAt - 1 ELSE 4
      got  == IF read >= 3 /\ p.id < 0 THEN 2 ELSE read
  IN  [page |-> [Title |-> IF got >= 1 THEN p.title ELSE << >>,
                 NS    |-> IF got >= 2 THEN p.ns ELSE 0,
                 ID    |-> IF got >= 3 THEN p.id ELSE 0,
                 Text  |-> IF got >= 4 THEN p.text ELSE << >>],
       err    |-> got < 4,
       sticky |-> p.syntaxAt > 0]

\* ------------------------------------------------------------- accumulation
\* positions[t] = append(positions[t], uint32(i)) for i, t in tokens.
RECURSIVE PositionsFrom(_, _, _)
PositionsFrom(tokens, i, positions) ==
  IF i > Len(tokens) THEN positions
  ELSE PositionsFrom(tokens, i + 1, MapAppend(positions, tokens[i], i - 1))

TermPositions(tokens) == PositionsFrom(tokens, 1, EmptyMap)

\* shards is the slice of per-shard maps, kept for the shards that hold a
\* term; every other entry is the empty map made at start.
ShardAt(sh, i) == IF i \in DOMAIN sh THEN sh[i] ELSE EmptyMap

\* shards[shard][t] = append(shards[shard][t], Posting{...})
AddPosting(sh, t, posting) ==
  LET n == TermShard(t) IN
  IF n \in DOMAIN sh THEN [sh EXCEPT ![n] = MapAppend(@, t, posting)]
  ELSE sh @@ (n :> MapAppend(EmptyMap, t, posting))

\* The loop over the positions map, visiting its keys in the order ord.
RECURSIVE AddPostings(_, _, _, _)
AddPostings(sh, positions, ord, id) ==
  IF ord = << >> THEN sh
  ELSE AddPostings(AddPosting(sh, Head(ord), [DocID |-> id, Positions |-> positions[Head(ord)]]),
                   positions, Tail(ord), id)

\* Every page kept, whatever its namespace.
RetainedAlways(page) == TRUE

\* Whether the page is kept (the namespace test of the loop).
Retained(page) == page.NS = 0

\* ------------------------------------------------------------------ flushing
\* The index shards written before the document shards.
FlushOrderIndexFirst == <<"flushIndex", "flushDocs", "flushMeta", "done">>

\* The order of the steps after the stream: writeDocShards, the index shard
\* loop, meta.json, "done".
FlushOrder == <<"flushDocs", "flushIndex", "flushMeta", "done">>

PhaseAfter(p) ==
  LET order == <<"streaming">> \o FlushOrder
      i     == CHOOSE k \in 1..Len(order) : order[k] = p
  IN  order[i + 1]

\* The shards writeDocShards creates a file for.
DocFileNums(ds) == {n \in DOMAIN ds : Len(ds[n]) # 0}

\* An index loop that skips the shards without a term, as writeDocShards does.
IndexFileNumsSkipEmpty(sh) == DOMAIN sh

\* The shards the index loop creates a file for: every entry of the slice.
IndexFileNums(sh) == 0..(shardCount - 1)

\* One visiting order of the terms for every shard that holds terms.
KeyOrders(sh) ==
  {f \in [DOMAIN sh -> UNION {IterOrders(DOMAIN sh[i]) : i \in DOMAIN sh}] :
     \A i \in DOMAIN sh : f[i] \in IterOrders(DOMAIN sh[i])}

\* sort.Slice sorts the posting slices of the map in place.
SortedShards(sh) == [i \in DOMAIN sh |-> [t \in DOMAIN sh[i] |-> SortPostings(sh[i][t])]]

Meta(n) == [docCount |-> n, shardCount |-> shardCount, docShardCount |-> docShardCount]

NoFiles == [n \in {} |-> << >>]
NoPrev == [docFiles |-> NoFiles, indexFiles |-> NoFiles, metaFile |-> << >>,
           docShards |-> NoFiles, pages |-> << >>]

\* -------------------------------------------------------------------- state
VARIABLES
  pc,          \* where the process is
  exitCode,    \* the exit code once the process has ended, -1 before
  hasArg,      \* len(os.Args) >= 2
  input,       \* the dump at dumpPath
  fileOpen,    \* f is an open file (os.Open succeeded)
  pos,         \* the pages the decoder has consumed
  decErr,      \* the decoder holds a syntax error
  shards, docShards, docCount,
  docFiles,    \* public/docs/shard_NNNNN.bin: shard number -> bytes
  indexFiles,  \* public/index/shard_NNNN.bin: shard number -> bytes
  metaFile,    \* public/index/meta.json: << >> or <<Meta>>
  writes,      \* the write steps of this run, in order
  rerun,       \* this is the second run
  prev         \* the output and the documents of the first run

vars == <<pc, exitCode, hasArg, input, fileOpen, pos, decErr, shards, docShards,
          docCount, docFiles, indexFiles, metaFile, writes, rerun, prev>>

Init ==
  /\ pc = "main"
  /\ exitCode = -1
  /\ \/ hasArg = TRUE /\ input \in Inputs
     \/ hasArg = FALSE /\ input = [pages |-> << >>, fault |-> "none"]
  /\ fileOpen = FALSE
  /\ pos = 0
  /\ decErr = FALSE
  /\ shards = NoFiles
  /\ docShards = NoFiles
  /\ docCount = 0
  /\ docFiles = NoFiles
  /\ indexFiles = NoFiles
  /\ metaFile = << >>
  /\ writes = << >>
  /\ rerun = FALSE
  /\ prev = NoPrev

\* main without an argument: usage, os.Exit(1).
Usage ==
  /\ pc = "main" /\ ~hasArg
  /\ pc' = "exited" /\ exitCode' = 1
  /\ UNCHANGED <<hasArg, input, fileOpen, pos, decErr, shards, docShards, docCount,
                 docFiles, indexFiles, metaFile, writes, rerun, prev>>

\* buildIndex up to the decoder: RemoveAll and MkdirAll of public/docs and
\* public/index, os.Open with its error dropped, the empty shards.
BuildStart ==
  /\ pc = "main" /\ hasArg
  /\ docFiles' = NoFiles /\ indexFiles' = NoFiles /\ metaFile' = << >>
  /\ fileOpen' = (input.fault # "open")
  /\ shards' = NoFiles /\ docShards' = NoFiles /\ docCount' = 0
  /\ pos' = 0 /\ decErr' = FALSE /\ writes' = << >>
  /\ pc' = "streaming"
  /\ UNCHANGED <<exitCode, hasArg, input, rerun, prev>>

\* decoder.Token() returns an error: the file is not open, the decoder holds
\* a syntax error, or the stream has ended (end of file or corrupt data).
TokenErr == ~fileOpen \/ decErr \/ pos >= Len(input.pages)

\* A page whose namespace is not 0: continue.
SkipPage ==
  /\ pc = "streaming" /\ ~TokenErr
  /\ LET d == DecodeElement(input.pages[pos + 1]) IN
       /\ ~Retained(d.page)
       /\ decErr' = d.sticky
  /\ pos' = pos + 1
  /\ UNCHANGED <<pc, exitCode, hasArg, input, fileOpen, shards, docShards, docCount,
                 docFiles, indexFiles, metaFile, writes, rerun, prev>>

\* A page of namespace 0: the document is appended to its shard, one posting
\* per term of the page to the term's shard, docCount++ (the progress line
\* printed every 10000 documents changes no state).
IndexPage ==
  /\ pc = "streaming" /\ ~TokenErr
  /\ LET d         == DecodeElement(input.pages[pos + 1])
         page      == d.page
         text      == stripWikitext(page.Text)
         positions == TermPositions(tokenize(text))
     IN  /\ Retained(page)
         /\ decErr' = d.sticky
         /\ docShards' = MapAppend(docShards, DocShard(page.ID),
                                   [ID |-> page.ID, Title |-> page.Title, Content |-> text])
         /\ \E ord \in IterOrders(DOMAIN positions) :
              shards' = AddPostings(shards, positions, ord, page.ID)
  /\ docCount' = docCount + 1
  /\ pos' = pos + 1
  /\ UNCHANGED <<pc, exitCode, hasArg, input, fileOpen,
                 docFiles, indexFiles, metaFile, writes, rerun, prev>>

\* decoder.Token() fails: break.
EndOfStream ==
  /\ pc = "streaming" /\ TokenErr
  /\ pc' = PhaseAfter(pc)
  /\ UNCHANGED <<exitCode, hasArg, input, fileOpen, pos, decErr, shards, docShards,
                 docCount, docFiles, indexFiles, metaFile, writes, rerun, prev>>

\* writeDocShards: one file per shard that holds a document.
WriteDocShards ==
  /\ pc = "flushDocs"
  /\ docFiles' = [n \in DOMAIN docFiles \cup DocFileNums(docShards) |->
                    IF n \in DocFileNums(docShards) THEN EncodeDocShard(docShards[n])
                    ELSE docFiles[n]]
  /\ writes' = Append(writes, "docs")
  /\ pc' = PhaseAfter(pc)
  /\ UNCHANGED <<exitCode, hasArg, input, fileOpen, pos, decErr, shards, docShards,
                 docCount, indexFiles, metaFile, rerun, prev>>

\* The index shard loop: a file for each shard, its terms sorted, the
\* postings of each term sorted by document identifier.
WriteIndexShards ==
  /\ pc = "flushIndex"
  /\ \E keys \in KeyOrders(shards) :
       indexFiles' = [i \in DOMAIN indexFiles \cup IndexFileNums(shards) |->
                        IF i \in IndexFileNums(shards)
                        THEN IF i \in DOMAIN shards
                             THEN EncodeIndexShard(shards[i], keys[i])
                             ELSE << >>
                        ELSE indexFiles[i]]
  /\ shards' = SortedShards(shards)
  /\ writes' = Append(writes, "index")
  /\ pc' = PhaseAfter(pc)
  /\ UNCHANGED <<exitCode, hasArg, input, fileOpen, pos, decErr, docShards,
                 docCount, docFiles, metaFile, rerun, prev>>

\* meta.json, then "done" is printed.
WriteMeta ==
  /\ pc = "flushMeta"
  /\ metaFile' = <<Meta(docCount)>>
  /\ writes' = Append(writes, "meta")
  /\ pc' = PhaseAfter(pc)
  /\ UNCHANGED <<exitCode, hasArg, input, fileOpen, pos, decErr, shards, docShards,
                 docCount, docFiles, indexFiles, rerun, prev>>

\* buildIndex and main return: the process ends with code 0.
Exit ==
  /\ pc = "done"
  /\ pc' = "exited" /\ exitCode' = 0
  /\ UNCHANGED <<hasArg, input, fileOpen, pos, decErr, shards, docShards, docCount,
                 docFiles, indexFiles, metaFile, writes, rerun, prev>>

\* The operator runs the program again on the same pages, in the same or in
\* another order; the first run's output is remembered.
Rerun ==
  /\ pc = "exited" /\ exitCode = 0 /\ ~rerun
  /\ \E order \in IterOrders(1..Len(input.pages)) :
       input' = [input EXCEPT !.pages = [i \in 1..Len(input.pages) |-> input.pages[order[i]]]]
  /\ prev' = [docFiles |-> docFiles, indexFiles |-> indexFiles, metaFile |-> metaFile,
              docShards |-> docShards, pages |-> input.pages]
  /\ rerun' = TRUE
  /\ pc' = "main" /\ exitCode' = -1
  /\ UNCHANGED <<hasArg, fileOpen, pos, decErr, shards, docShards, docCount,
                 docFiles, indexFiles, metaFile, writes>>

Next ==
  \/ Usage
  \/ BuildStart
  \/ SkipPage
  \/ IndexPage
  \/ EndOfStream
  \/ WriteDocShards
  \/ WriteIndexShards
  \/ WriteMeta
  \/ Exit
  \/ Rerun

Spec == Init /\ [][Next]_vars

\* ------------------------------------------------------------ derived state
\* The build has written everything ("done" has been printed).
Built == pc = "done"

\* The documents and the postings accumulated by the run.
AllDocs(ds) == UNION {Range(ds[n]) : n \in DOMAIN ds}
AllTerms(sh) == UNION {DOMAIN sh[i] : i \in DOMAIN sh}
PostingLists(sh) == UNION {{sh[i][t] : t \in DOMAIN sh[i]} : i \in DOMAIN sh}
OutputDocIds == {d.ID : d \in AllDocs(docShards)}
OutputPostingIds == UNION {{p.DocID : p \in Range(l)} : l \in PostingLists(shards)}

\* How many times the document d was accumulated.
DocTimes(ds, d) ==
  Cardinality(UNION {{<<n, k>> : k \in {j \in 1..Len(ds[n]) : ds[n][j] = d}} : n \in DOMAIN ds})

\* No two accumulated documents have the same identifier.
DistinctDocIds ==
  \A n \in DOMAIN docShards : \A j, k \in 1..Len(docShards[n]) :
    j # k => docShards[n][j].ID # docShards[n][k].ID

\* The dump was opened, every page element of it decodes without error, and
\* it was read to its end.
WellFormedDump ==
  /\ input.fault = "none"
  /\ \A k \in 1..Len(input.pages) : ~DecodeElement(input.pages[k]).err

\* Both runs accumulated the same documents, each as many times.
SameDocs ==
  /\ AllDocs(docShards) = AllDocs(prev.docShards)
  /\ \A d \in AllDocs(docShards) : DocTimes(docShards, d) = DocTimes(prev.docShards, d)

\* ------------------------------------------------------ reading a shard back
\* The inverse of the index shard layout: 1-byte term length, term bytes,
\* 32-bit posting count, then per posting a varint doc-id delta, a varint
\* position count and varint position deltas.  ok is FALSE when the bytes do
\* not parse.
Bad == [ok |-> FALSE, val |-> 0, next |-> 0]

RECURSIVE ReadUvarint(_, _, _)
ReadUvarint(b, i, n) ==
  IF i > Len(b) \/ n > 4 THEN Bad
  ELSE IF b[i] < 128 THEN [ok |-> TRUE, val |-> b[i], next |-> i + 1]
  ELSE LET r == ReadUvarint(b, i + 1, n + 1) IN
       IF r.ok /\ r.val < 16777216
       THEN [ok |-> TRUE, val |-> (b[i] - 128) + 128 * r.val, next |-> r.next]
       ELSE Bad

RECURSIVE ReadPositions(_, _, _, _)
ReadPositions(b, i, n, prevPos) ==
  IF n = 0 THEN [ok |-> TRUE, val |-> << >>, next |-> i]
  ELSE LET d == ReadUvarint(b, i, 1) IN
       IF ~d.ok THEN Bad
       ELSE LET rest == ReadPositions(b, d.next, n - 1, prevPos + d.val) IN
            IF rest.ok
            THEN [ok |-> TRUE, val |-> <<prevPos + d.val>> \o rest.val, next |-> rest.next]
            ELSE Bad

RECURSIVE ReadPostings(_, _, _, _)
ReadPostings(b, i, n, prevDoc) ==
  IF n = 0 THEN [ok |-> TRUE, val |-> << >>, next |-> i]
  ELSE LET d == ReadUvarint(b, i, 1) IN
       IF ~d.ok THEN Bad
       ELSE LET c == ReadUvarint(b, d.next, 1) IN
            IF ~c.ok \/ c.val > Len(b) THEN Bad
            ELSE LET ps == ReadPositions(b, c.next, c.val, 0) IN
                 IF ~ps.ok THEN Bad
                 ELSE LET rest == ReadPostings(b, ps.next, n - 1, prevDoc + d.val) IN
                      IF rest.ok
                      THEN [ok |-> TRUE,
                            val |-> <<[DocID |-> prevDoc + d.val, Positions |-> ps.val]>> \o rest.val,
                            next |-> rest.next]
                      ELSE Bad

RECURSIVE ReadTerms(_, _)
ReadTerms(b, i) ==
  IF i > Len(b) THEN [ok |-> TRUE, val |-> << >>, next |-> i]
  ELSE LET n    == b[i]
           from == i + 1 + n
       IN  IF from + 3 > Len(b) \/ b[from + 3] >= 128 THEN Bad
           ELSE LET count == b[from] + 256 * b[from + 1] + 65536 * b[from + 2]
                             + 16777216 * b[from + 3]
                IN  IF count > Len(b) THEN Bad
                    ELSE LET ps == ReadPostings(b, from + 4, count, 0) IN
                         IF ~ps.ok THEN Bad
                         ELSE LET rest == ReadTerms(b, ps.next) IN
                              IF rest.ok
                              THEN [ok |-> TRUE,
                                    val |-> <<[term |-> SubSeq(b, i + 1, i + n),
                                               postings |-> ps.val]>> \o rest.val,
                                    next |-> rest.next]
                              ELSE Bad

DecodeIndexShard(b) ==
  LET r == ReadTerms(b, 1) IN [ok |-> r.ok, terms |-> IF r.ok THEN r.val ELSE << >>]

\* The terms of shard i in ascending order, each with its postings in
\* ascending order of document identifier.
ShardContent(sh, i) ==
  LET m     == ShardAt(sh, i)
      terms == SortStrings(CHOOSE o \in IterOrders(DOMAIN m) : TRUE)
  IN  [k \in 1..Len(terms) |-> [term |-> terms[k], postings |-> SortPostings(m[terms[k]])]]

\* ------------------------------------------------------------------- claims
\* C1 (as stated): after a build, for every input (here: every well-formed
\* dump, identifiers repeated or 0 included), every term's encoded postings
\* have strictly ascending document identifiers: every doc-id delta the
\* encoder writes, the first taken from zero, is >= 1.
C1_DeltasAtLeastOne ==
  (Built /\ WellFormedDump) => \A l \in PostingLists(shards) :
             \A k \in 1..Len(l) : DocDeltas(SortPostings(l))[k] >= 1

\* C1 (amended): when the accumulated documents have pairwise distinct
\* identifiers, every term's encoded postings are strictly ascending by
\* document identifier, every delta after the first is >= 1, and the first
\* delta is the smallest identifier (0 when a document has identifier 0).
C1_AscendingWhenIdsDistinct ==
  (Built /\ DistinctDocIds) =>
    \A l \in PostingLists(shards) :
      LET s == SortPostings(l)
          d == DocDeltas(s)
      IN  /\ \A j, k \in 1..Len(s) : j < k => s[j].DocID < s[k].DocID
          /\ \A k \in 2..Len(s) : d[k] >= 1
          /\ Len(s) >= 1 => (d[1] = s[1].DocID /\ \A k \in 1..Len(s) : s[1].DocID <= l[k].DocID)

\* C1 witness: a finished build of documents with distinct identifiers in
\* which a term has two postings that arrived in descending order.
C1_Witness ==
  /\ Built /\ DistinctDocIds /\ ~rerun
  /\ input.pages = <<PageB, PageA>>
  /\ \E l \in PostingLists(shards) : Len(l) = 2

\* C2 (as stated): every index shard file decodes, by the inverse of the
\* layout, to exactly the shard's terms, document identifiers and position
\* lists (here: for well-formed dumps).
C2_PostingsRoundTrip ==
  (Built /\ WellFormedDump) => \A i \in DOMAIN indexFiles :
             DecodeIndexShard(indexFiles[i]) = [ok |-> TRUE, terms |-> ShardContent(shards, i)]

\* The round trip does hold for the shards whose terms all fit the 8-bit
\* length field.
RoundTripOfShortTerms ==
  Built => \A i \in DOMAIN indexFiles :
             (\A t \in DOMAIN ShardAt(shards, i) : Len(t) <= 255) =>
               DecodeIndexShard(indexFiles[i]) = [ok |-> TRUE, terms |-> ShardContent(shards, i)]

\* C3 (as stated): after a build, no document and no posting carries the
\* identifier of a page whose namespace is not 0, whatever the other pages
\* (here: of a well-formed dump).
C3_NoIdOfFilteredPage ==
  (Built /\ WellFormedDump) => \A k \in 1..Len(input.pages) :
             LET page == DecodeElement(input.pages[k]).page IN
             page.NS # 0 => page.ID \notin OutputDocIds \cup OutputPostingIds

\* C3 (amended): after a build, no document and no posting carries the
\* identifier of a page whose namespace is not 0, unless a page of the input
\* that decodes with namespace 0 has the same identifier.
C3_FilteredPageAddsNothing ==
  Built => \A k \in 1..Len(input.pages) :
             LET page == DecodeElement(input.pages[k]).page IN
             (/\ page.NS # 0
              /\ \A j \in 1..Len(input.pages) :
                   LET other == DecodeElement(input.pages[j]).page IN
                   other.NS = 0 => other.ID # page.ID)
             => page.ID \notin OutputDocIds \cup OutputPostingIds

\* C3 witness: a finished build whose input holds a page of another
\* namespace next to a page that was indexed.
C3_Witness ==
  /\ Built /\ input.pages = <<PageTalk, PageB>> /\ pos = 2
  /\ docCount = 1 /\ OutputDocIds = {PageB.id}

\* C4: a second run on the same sequence of pages writes the same document
\* shard files, index shard files and metadata as the first, whatever the
\* orders in which the two runs visit their maps.
C4_RerunSameOutput ==
  (Built /\ rerun /\ input.pages = prev.pages) =>
    /\ docFiles = prev.docFiles
    /\ indexFiles = prev.indexFiles
    /\ metaFile = prev.metaFile

\* C4 witness: a second run on the same pages is finished, and a shard holds
\* two terms (so the two runs could visit them in different orders).
C4_Witness ==
  /\ Built /\ rerun /\ input.pages = prev.pages
  /\ \E i \in DOMAIN shards : Cardinality(DOMAIN shards[i]) >= 2
  /\ metaFile # << >> /\ docFiles # NoFiles

\* C5 (as stated): when the dump cannot be opened or decompressed the run
\* never reaches the flushing steps or "done", and does not end with code 0.
C5_BadInputAborts ==
  input.fault # "none" =>
    /\ pc \notin {"flushDocs", "flushIndex", "flushMeta", "done"}
    /\ exitCode # 0

\* C6 (as stated): a page element that fails to decode adds no document, no
\* posting and no count, and every well-formed namespace-0 page after it is
\* indexed: after a build the documents are exactly those of the well-formed
\* namespace-0 pages of the stream (here: of a dump read to its end).
C6_MalformedPageSkipped ==
  (Built /\ input.fault = "none") =>
    LET good == {k \in 1..Len(input.pages) :
                   /\ ~DecodeElement(input.pages[k]).err
                   /\ input.pages[k].ns = 0}
    IN  /\ docCount = Cardinality(good)
        /\ OutputDocIds = {input.pages[k].id : k \in good}
        /\ OutputPostingIds \subseteq {input.pages[k].id : k \in good}

\* C7 (as stated): every length field written equals the number of payload
\* bytes written after it: the term length byte, the 16-bit title length and
\* the 32-bit content length (here: for well-formed dumps).
C7_LengthFieldsExact ==
  (Built /\ WellFormedDump) =>
    /\ \A t \in AllTerms(shards) : TermLenField(t) = Len(t)
    /\ \A i \in DOMAIN shards : indexFiles[i][1] = Len(ShardContent(shards, i)[1].term)
    /\ \A d \in AllDocs(docShards) :
         TitleLenField(d.Title) = Len(d.Title) /\ ContentLenField(d.Content) = Len(d.Content)

\* C8 (as stated): after a build a shard file exists exactly when its shard
\* is not empty, for document shards and for index shards (here: for
\* well-formed dumps with a retained page).
C8_FileIffShardNonEmpty ==
  (Built /\ WellFormedDump /\ docCount >= 1) =>
    /\ DOMAIN docFiles = {DocShard(d.ID) : d \in AllDocs(docShards)}
    /\ DOMAIN indexFiles = {TermShard(t) : t \in AllTerms(shards)}

\* C8 (amended): after a build docs/shard_N exists exactly when a retained
\* document has id mod 65536 = N; index/shard_N exists for every N in
\* 0..4095, and is empty exactly when no indexed term has hash mod 4096 = N.
C8_DocFilesSparseIndexFilesAll ==
  Built =>
    /\ DOMAIN docFiles = {DocShard(d.ID) : d \in AllDocs(docShards)}
    /\ DOMAIN indexFiles = 0..(shardCount - 1)
    /\ LET used == {TermShard(t) : t \in AllTerms(shards)} IN
       /\ \A i \in used : indexFiles[i] # << >>
       /\ indexFiles = [i \in 0..(shardCount - 1) |->
                          IF i \in used THEN indexFiles[i] ELSE << >>]

\* C8 witness: a finished build with a document, a term, and an index shard
\* without any term.
C8_Witness ==
  /\ Built /\ docFiles # NoFiles
  /\ AllTerms(shards) # {}
  /\ \E i \in DOMAIN indexFiles : indexFiles[i] = << >>

\* The states of C9: nothing is written while streaming, and the write steps
\* of a run are a prefix of docs, index, meta.
C9_State ==
  /\ pc = "streaming" => (docFiles = NoFiles /\ indexFiles = NoFiles
                             /\ metaFile = << >> /\ writes = << >>)
  /\ \E n \in 0..3 : writes = SubSeq(<<"docs", "index", "meta">>, 1, n)
  /\ pc \in {"done", "exited"} /\ exitCode # 1 => writes = <<"docs", "index", "meta">>

\* The steps of C9: flushing never returns to streaming, and each kind of
\* file changes only in its own step, after the kinds before it.
C9_Step ==
  /\ pc \in {"flushDocs", "flushIndex", "flushMeta", "done"} => pc' # "streaming"
  /\ (docFiles' # docFiles /\ pc # "main") => (pc = "flushDocs" /\ writes = << >>)
  /\ (indexFiles' # indexFiles /\ pc # "main") => (pc = "flushIndex" /\ writes = <<"docs">>)
  /\ (metaFile' # metaFile /\ pc # "main") =>
       (pc = "flushMeta" /\ writes = <<"docs", "index">> /\ pc' = "done")

\* C9: no file is written while pages are read; after the stream the
\* document shards are written first, then the index shards, then the
\* metadata, once and last; the run never goes back from flushing to
\* streaming.
C9_WriteOrder == []C9_State /\ [][C9_Step]_vars

\* C9 witness: a finished build that wrote document shards, index shards
\* and the metadata.
C9_Witness ==
  /\ Built /\ docFiles # NoFiles /\ indexFiles # NoFiles /\ metaFile # << >>
  /\ Len(writes) = 3 /\ docCount = 2

\* C10 (as stated): two runs that accumulate the same documents, in any two
\* orders, write identical output (here: for well-formed dumps whose
\* documents have pairwise distinct identifiers).
C10_ArrivalOrderIndependent ==
  (Built /\ rerun /\ SameDocs /\ WellFormedDump /\ DistinctDocIds) =>
    /\ docFiles = prev.docFiles
    /\ indexFiles = prev.indexFiles
    /\ metaFile = prev.metaFile

\* C10 (amended): two runs that accumulate the same documents, with pairwise
\* distinct identifiers, in any two orders write identical index shard files
\* and metadata and the same set of document shard files; a document shard
\* file is identical when its documents arrived in the same order (document
\* shards are written in arrival order).
C10_IndexIndependentOfArrival ==
  (Built /\ rerun /\ SameDocs /\ DistinctDocIds) =>
    /\ indexFiles = prev.indexFiles
    /\ metaFile = prev.metaFile
    /\ DOMAIN docFiles = DOMAIN prev.docFiles
    /\ \A n \in DOMAIN docFiles :
         docShards[n] = prev.docShards[n] => docFiles[n] = prev.docFiles[n]

\* C10 witness: the second run has finished on the pages of the first in
\* another order, with the same documents, and a term has two postings.
C10_Witness ==
  /\ Built /\ rerun /\ SameDocs /\ DistinctDocIds
  /\ input.pages # prev.pages
  /\ \E l \in PostingLists(shards) : Len(l) = 2
====
